---- MODULE Spec2Model ----
(***************************************************************************)
(* Price-Volume Derivatives Momentum (PDM) engine of the ml-service:       *)
(* ml-service/pdm_strategy_engine.py, class PriceVolumeDerivativesEngine.  *)
(*                                                                         *)
(* Numbers.  Prices and volumes are integers.  Python floats the engine    *)
(* derives from them are kept exactly where they are rational with a       *)
(* fixed denominator, and in fixed point otherwise:                        *)
(*   - a rolling mean over w bars is its window sum (the mean times w),    *)
(*     compared by cross-multiplication;                                   *)
(*   - the two stop levels are in units of 1/AtrPeriod;                    *)
(*   - a percent change is in units of 1/PctScale, a correlation and the   *)
(*     institutional factor in units of 1/Scale (truncating division);     *)
(*   - the confidence score is in units of 1/(8*Scale);                    *)
(*   - NaN is the value NaN below; a bar index runs from 1 (pandas' 0).    *)
(***************************************************************************)
EXTENDS Integers, Sequences, FiniteSets, TLC

\* engine: the fields of the PriceVolumeDerivativesEngine instance
\* provider: what yfinance holds for each symbol, a history or "raise"
\* corr_accepts_rolling: whether the installed pandas lets Rolling.corr take the
\*     Rolling object line 205 hands it (older versions) or raises (newer ones)
\* clock: the time datetime.now() returns
\* call: the last call made on the engine and its outcome
\* prediction_results_cache: the global dictionary of app.py, the /predict
\*     responses kept by cache key
VARIABLES engine, provider, corr_accepts_rolling, clock, call, prediction_results_cache

vars == <<engine, provider, corr_accepts_rolling, clock, call, prediction_results_cache>>

-----------------------------------------------------------------------------
(* Bounds of the model *)

\* fixed-point resolution of a percent change (pct_change)
PctScale == 1000
\* fixed-point resolution of a correlation and of the institutional factor
Scale == 1000
\* longest symbol list handed to filter_stocks_by_liquidity
MaxSymbols == 2
\* the wall clock runs over 0..MaxClock
MaxClock == 1
\* smallest..largest value a caller assigns to engine.maximum_positions
MaxAssignedPositions == 2
\* longest series of drawn values handed to an indicator method
MaxSeriesLen == 3
\* longest averaging period handed to calculate_average_true_range besides its default
MaxPeriod == 2
\* an institutional factor near 1.2 lies within MaxUlps units in the last place of it
MaxUlps == 6

(* Program constants *)

MinBars == 200
SmaShortWindow == 20
SmaLongWindow == 200
AtrPeriod == 14
VolumeMaWindow == 20
CorrelationWindow == 10
LiquidityPeriodDays == 30
EvaluationCap == 10
DefaultMaximumPositions == 25
DefaultLookbackPeriod == 252
DefaultMinLiquidity == 1000000
DefaultHardStopMultiplier == 2
DefaultTrailingStopMultiplier == 3
\* app_config.prediction_cache_timeout_seconds
PredictionCacheTimeoutSeconds == 300
\* timedelta.seconds runs over 0..86399: the seconds of a day
SecondsPerDay == 86400

\* numpy.nan: the undefined entries of a pandas Series
NaN == -2000000000
\* numpy.inf
Inf == 1900000000

-----------------------------------------------------------------------------
(* Arithmetic helpers *)

Abs(x) == IF x < 0 THEN -x ELSE x

Max2(a, b) == IF a >= b THEN a ELSE b

Min2(a, b) == IF a <= b THEN a ELSE b

\* sum of s[lo..hi], by halving the range
SumRange(s, lo, hi) ==
    LET part[r \in (lo..hi) \X (lo..hi)] ==
            IF r[1] >= r[2] THEN s[r[1]]
            ELSE LET mid == (r[1] + r[2]) \div 2
                 IN  part[<<r[1], mid>>] + part[<<mid + 1, r[2]>>]
    IN  IF lo > hi THEN 0 ELSE part[<<lo, hi>>]

\* floor of the square root (n ** 0.5), 0 <= n < 2^31
ISqrt(n) == CHOOSE r \in 0..Min2(n, 46340) : r * r <= n /\ (r + 1) * (r + 1) > n

-----------------------------------------------------------------------------
(* pandas Series: a function over 1..n of integers or NaN *)

SeriesLen(s) == Cardinality(DOMAIN s)

\* Series.iloc[-1]
ILocLast(s) == s[SeriesLen(s)]

\* Series.diff(): s[t] - s[t-1], NaN at the first index and where an operand is NaN
Diff(s) ==
    [t \in DOMAIN s |->
        IF t = 1 THEN NaN
        ELSE IF s[t] = NaN \/ s[t - 1] = NaN THEN NaN
        ELSE IF s[t] \in {Inf, -Inf}
             THEN IF s[t - 1] = s[t] THEN NaN ELSE s[t]
        ELSE IF s[t - 1] \in {Inf, -Inf} THEN -s[t - 1]
        ELSE s[t] - s[t - 1]]

\* Series.shift(1)
Shift1(s) == [t \in DOMAIN s |-> IF t = 1 THEN NaN ELSE s[t - 1]]

\* Series.rolling(window=w).mean(), as the window sum (the mean times w): NaN until
\* w bars are available (min_periods = window)
RollingSum(s, w) ==
    [t \in DOMAIN s |->
        IF t < w THEN NaN
        ELSE IF \E i \in (t - w + 1)..t : s[i] = NaN THEN NaN
        ELSE SumRange(s, t - w + 1, t)]

\* Series.pct_change() in units of 1/PctScale: NaN at the first index, and NaN
\* stands for the non-finite quotient over a zero previous value as well
PctChange(s) ==
    [t \in DOMAIN s |->
        IF t = 1 THEN NaN
        ELSE IF s[t - 1] = 0 THEN NaN
        ELSE ((s[t] - s[t - 1]) * PctScale) \div s[t - 1]]

\* DataFrame column
Column(data, name) == [t \in DOMAIN data |-> data[t][name]]

Pow2(k) == <<1, 2, 4, 8, 16, 32, 64, 128, 256, 512, 1024, 2048, 4096, 8192,
             16384, 32768, 65536>>[k + 1]

\* how many times v < 2^31 is divided by 4 to come below 2^15
Halvings(v) == CHOOSE k \in 0..8 :
                   /\ v \div Pow2(2 * k) < 32768
                   /\ \A j \in 0..(k - 1) : v \div Pow2(2 * j) >= 32768

\* Pearson correlation of the pairs (x[i], y[i]), i in lo..hi, in units of 1/Scale:
\* (n*Sxy - Sx*Sy) / sqrt((n*Sxx - Sx^2) * (n*Syy - Sy^2)); NaN (0/0) when either
\* variance is zero.  The square root is taken of the two variances scaled below
\* 2^15 each, and the covariance is scaled alike.
Pearson(x, y, lo, hi) ==
    LET n   == hi - lo + 1
        xy  == [i \in lo..hi |-> x[i] * y[i]]
        xx  == [i \in lo..hi |-> x[i] * x[i]]
        yy  == [i \in lo..hi |-> y[i] * y[i]]
        sx  == SumRange(x, lo, hi)
        sy  == SumRange(y, lo, hi)
        cov == n * SumRange(xy, lo, hi) - sx * sy
        vx  == n * SumRange(xx, lo, hi) - sx * sx
        vy  == n * SumRange(yy, lo, hi) - sy * sy
        kx  == Halvings(vx)
        ky  == Halvings(vy)
        rx  == vx \div Pow2(2 * kx)
        ry  == vy \div Pow2(2 * ky)
        q   == Abs(cov) \div Pow2(kx + ky)
        r   == (q * Scale) \div ISqrt(rx * ry)
    IN  IF vx = 0 \/ vy = 0 THEN NaN
        ELSE IF cov < 0 THEN -r ELSE r

\* a.rolling(window=w).corr(b): NaN until w pairs without NaN are available
RollingCorr(a, b, w) ==
    [t \in DOMAIN a |->
        IF t < w THEN NaN
        ELSE IF \E i \in (t - w + 1)..t : a[i] = NaN \/ b[i] = NaN THEN NaN
        ELSE Pearson(a, b, t - w + 1, t)]

\* Series.fillna(0)
FillNa0(s) == [t \in DOMAIN s |-> IF s[t] = NaN THEN 0 ELSE s[t]]

-----------------------------------------------------------------------------
(* PriceVolumeDerivativesEngine: the indicator methods *)

\* a velocity that starts at 0
price_velocity_from_zero(price_series) ==
    [t \in DOMAIN price_series |->
        IF t = 1 THEN 0 ELSE price_series[t] - price_series[t - 1]]

\* price_series.diff() / 1
calculate_price_velocity(price_series) == Diff(price_series)

\* a curvature that differences once
price_curvature_once(price_series) == Diff(price_series)

\* velocity.diff() / 1
calculate_price_curvature(price_series) ==
    Diff(calculate_price_velocity(price_series))

\* price_change / (volume_change + 1e-10) at one index.  The quotient is the
\* pair <<price_change, volume_change>> that stands for it, <<NaN, NaN>> being
\* NaN.  Over integer volumes the divisor is never 0.0; the quotient is infinite
\* where the price change is, and 0.0 where only the volume change is.
SensitivityQuotient(price_change, volume_change) ==
    IF price_change = NaN \/ volume_change = NaN THEN <<NaN, NaN>>
    ELSE IF price_change \in {Inf, -Inf}
         THEN IF volume_change \in {Inf, -Inf} THEN <<NaN, NaN>>
              ELSE IF volume_change >= 0 THEN <<price_change, volume_change>>
              ELSE <<-price_change, volume_change>>
    ELSE IF volume_change \in {Inf, -Inf} THEN <<0, 0>>
    ELSE <<price_change, volume_change>>

\* a series of quotients left as it is
KeepInf(quotients) == quotients

\* Series.replace([np.inf, -np.inf], 0)
ReplaceInf0(quotients) ==
    [t \in DOMAIN quotients |->
        IF quotients[t][1] \in {Inf, -Inf} THEN <<0, 0>> ELSE quotients[t]]

\* price_change / (volume_change + 1e-10), with +-inf replaced by 0
calculate_volume_sensitivity(price_series, volume_series) ==
    LET price_change  == Diff(price_series)
        volume_change == Diff(volume_series)
    IN  ReplaceInf0([t \in DOMAIN price_series |->
                        SensitivityQuotient(price_change[t], volume_change[t])])

\* rolling(20).mean() and rolling(200).mean(), as window sums
moving_averages_one_bar_short(price_series) ==
    [sma_20  |-> RollingSum(price_series, SmaShortWindow - 1),
     sma_200 |-> RollingSum(price_series, SmaLongWindow - 1)]

calculate_moving_averages(price_series) ==
    [sma_20  |-> RollingSum(price_series, SmaShortWindow),
     sma_200 |-> RollingSum(price_series, SmaLongWindow)]

\* an average of the signed distance of the low from the previous close
average_true_range_signed(high_series, low_series, close_series, period) ==
    RollingSum([t \in DOMAIN close_series |->
                   IF t = 1 THEN high_series[t] - low_series[t]
                   ELSE low_series[t] - close_series[t - 1]], period)

\* rolling(period).mean() of the true range, as the window sum (ATR times period);
\* max(axis=1) skips the NaN that close.shift(1) leaves at the first bar
calculate_average_true_range(high_series, low_series, close_series, period) ==
    LET prev_close == Shift1(close_series)
        true_range ==
            [t \in DOMAIN close_series |->
                LET true_range_1 == high_series[t] - low_series[t]
                IN  IF prev_close[t] = NaN THEN true_range_1
                    ELSE Max2(true_range_1,
                              Max2(Abs(high_series[t] - prev_close[t]),
                                   Abs(low_series[t] - prev_close[t])))]
    IN  RollingSum(true_range, period)

\* volume_ratio * abs(correlation.fillna(0)), then fillna(0), in units of 1/Scale.
\* volume_ratio = volume / rolling(20).mean(); the correlation is the 10-bar
\* rolling correlation of the two percent changes.
detect_institutional_volume_participation(volume_series, price_series) ==
    LET volume_ma_20   == RollingSum(volume_series, VolumeMaWindow)
        price_change   == PctChange(price_series)
        volume_change  == PctChange(volume_series)
        price_volume_correlation ==
            RollingCorr(price_change, volume_change, CorrelationWindow)
        abs_correlation == [t \in DOMAIN volume_series |->
                              Abs(FillNa0(price_volume_correlation)[t])]
        institutional_factor ==
            [t \in DOMAIN volume_series |->
                IF volume_ma_20[t] = NaN THEN NaN
                ELSE IF volume_ma_20[t] = 0
                     THEN IF volume_series[t] = 0 \/ abs_correlation[t] = 0 THEN NaN
                          ELSE IF volume_series[t] > 0 THEN Inf ELSE -Inf
                ELSE (volume_series[t] * VolumeMaWindow * abs_correlation[t])
                         \div volume_ma_20[t]]
    IN  FillNa0(institutional_factor)

-----------------------------------------------------------------------------
(* The data provider (yfinance) *)

Symbols == {"S1", "S2", "S3"}

\* A price history is built from a few parameters: n bars; the close is base until
\* ramp bars before the end, then moves by trend a bar, and by tail[1], tail[2] on
\* the last two bars; high and low lie spread above and below the close; the
\* volume is vbase, times spike[i]/10 on the last Len(spike) bars.
BarsOf(h) ==
    [t \in 1..h.n |->
        LET k     == h.n - t
            close == h.base
                     + (IF k < h.ramp THEN h.trend * (h.ramp - Max2(k, 2)) ELSE 0)
                     + (IF k <= 1 THEN h.tail[1] ELSE 0)
                     + (IF k = 0 THEN h.tail[2] ELSE 0)
            m     == IF k < Len(h.spike) THEN h.spike[Len(h.spike) - k] ELSE 10
        IN  [Close  |-> close,
             High   |-> close + h.spread,
             Low    |-> close - h.spread,
             Volume |-> (h.vbase * m) \div 10]]

Rising(n, tail, spike, vbase) ==
    [n |-> n, base |-> 100, ramp |-> 30, trend |-> 1, tail |-> tail,
     spike |-> spike, vbase |-> vbase, spread |-> 2]

Flat(n, vbase) ==
    [n |-> n, base |-> 100, ramp |-> 0, trend |-> 0, tail |-> <<0, 0>>,
     spike |-> <<>>, vbase |-> vbase, spread |-> 2]

\* The histories the provider can hold for a symbol
Histories ==
    [empty    |-> Flat(0, 10000),
     edge     |-> Flat(LiquidityPeriodDays, 10000),
     rich     |-> Flat(MinBars, 20000),
     poor     |-> Flat(MinBars, 5000),
     short    |-> Rising(MinBars - 1, <<2, 1>>, <<20, 30>>, 10000),
     strong   |-> Rising(MinBars, <<2, 1>>, <<20, 30>>, 10000),
     medium   |-> Rising(MinBars + 1, <<2, 1>>, <<16, 16>>, 10000),
     quiet    |-> Rising(MinBars, <<2, 1>>, <<>>, 10000),
     mild     |-> Rising(MinBars, <<2, 1>>, <<14, 14>>, 10000),
     thin     |-> Rising(MinBars, <<2, 1>>, <<13, 15>>, 10000),
     speeding |-> Rising(MinBars, <<1, 2>>, <<20>>, 10000)]

HistoryIds == DOMAIN Histories

\* the bars of every history
Market == [id \in HistoryIds |-> BarsOf(Histories[id])]

\* what yfinance.download does for a symbol: "raise" (the call raises) or the id
\* of the history it returns
ProviderOutcomes == {"raise"} \cup HistoryIds

\* yf.download(symbol, start=..., end=...) of a symbol holding history id
DownloadHistory(id) == Market[id]

\* yf.download(symbol, period='30d', interval='1d'): the trailing bars of it
DownloadRecent(id) ==
    LET all == Market[id]
        n   == SeriesLen(all)
        m   == Min2(n, LiquidityPeriodDays)
    IN  [t \in 1..m |-> all[n - m + t]]

-----------------------------------------------------------------------------
(* PriceVolumeDerivativesEngine: construction *)

\* _get_nifty_500_universe(): the fixed sample universe
get_nifty_500_universe == <<"S1", "S2", "S3">>

\* __init__(lookback_period, min_liquidity)
NewEngine(lookback_period, min_liquidity) ==
    [lookback_period              |-> lookback_period,
     minimum_daily_liquidity      |-> min_liquidity,
     maximum_positions            |-> DefaultMaximumPositions,
     atr_hard_stop_multiplier     |-> DefaultHardStopMultiplier,
     atr_trailing_stop_multiplier |-> DefaultTrailingStopMultiplier,
     indian_market_symbols        |-> get_nifty_500_universe]

\* a log record: the level and the symbol it is about ("*" for a summary line)
LogRecord(level, symbol) == <<level, symbol>>

\* Optional[PDMSignal]: None is the empty sequence, a signal a sequence of one
None == <<>>

-----------------------------------------------------------------------------
(* filter_stocks_by_liquidity *)

\* stock_data['Volume'].mean() and stock_data['Close'].mean(), as the number of
\* bars and the two sums
Means(stock_data) ==
    LET m == SeriesLen(stock_data)
    IN  [bars       |-> m,
         volume_sum |-> SumRange(Column(stock_data, "Volume"), 1, m),
         close_sum  |-> SumRange(Column(stock_data, "Close"), 1, m)]

\* the means of the recent bars of every history (computed once)
RecentMeans == [id \in HistoryIds |-> Means(DownloadRecent(id))]

\* a threshold that the liquidity has to exceed
MeetsLiquidityStrictly(means, minimum) ==
    means.volume_sum * means.close_sum > minimum * means.bars * means.bars

\* daily_liquidity >= self.minimum_daily_liquidity, where daily_liquidity is
\* average_daily_volume * average_price
MeetsLiquidity(means, minimum) ==
    means.volume_sum * means.close_sum >= minimum * means.bars * means.bars

\* the body of the try for one symbol: raised (the fetch raised), retained (the
\* symbol is appended) and the records logged
LiquidityCheck(symbol) ==
    IF provider[symbol] = "raise"
    THEN [raised |-> TRUE, retained |-> FALSE, log |-> <<>>]
    ELSE LET stock_data == RecentMeans[provider[symbol]]
         IN  IF stock_data.bars # 0
                /\ MeetsLiquidity(stock_data, engine.minimum_daily_liquidity)
             THEN [raised |-> FALSE, retained |-> TRUE,
                   log |-> <<LogRecord("info", symbol)>>]
             ELSE [raised |-> FALSE, retained |-> FALSE, log |-> <<>>]

\* the symbol put in front of the list
RetainInFront(liquid_stocks, symbol) == <<symbol>> \o liquid_stocks

\* liquid_stocks.append(symbol)
Retain(liquid_stocks, symbol) == Append(liquid_stocks, symbol)

RECURSIVE FilterLoop(_, _, _)
\* the for loop from symbols[i] on, with liquid_stocks and the log so far
FilterLoop(symbols, i, acc) ==
    IF i > Len(symbols)
    THEN [acc EXCEPT !.log = Append(@, LogRecord("info", "*"))]
    ELSE LET r == LiquidityCheck(symbols[i])
         IN  IF r.raised
             THEN \* except Exception: logger.warning(...); continue
                  FilterLoop(symbols, i + 1,
                      [acc EXCEPT !.log = Append(@, LogRecord("warning", symbols[i]))])
             ELSE FilterLoop(symbols, i + 1,
                      [acc EXCEPT
                          !.result = IF r.retained THEN Retain(@, symbols[i]) ELSE @,
                          !.log = @ \o r.log])

filter_stocks_by_liquidity(symbols) ==
    FilterLoop(symbols, 1, [result |-> <<>>, raised |-> FALSE, log |-> <<>>])

-----------------------------------------------------------------------------
(* generate_pdm_signals *)

\* a guard that lets a history of one bar less through
InsufficientDataBelow199(stock_data) ==
    SeriesLen(stock_data) = 0 \/ SeriesLen(stock_data) < MinBars - 1

\* stock_data.empty or len(stock_data) < 200
InsufficientData(stock_data) ==
    SeriesLen(stock_data) = 0 \/ SeriesLen(stock_data) < MinBars

\* sma_20[-1] > sma_200[-1] and latest_price > sma_20[-1], on the window sums;
\* a comparison with NaN is False
TrendConfirmation(sma_20_sum, sma_200_sum, latest_price) ==
    /\ sma_20_sum # NaN
    /\ sma_200_sum # NaN
    /\ sma_20_sum * SmaLongWindow > sma_200_sum * SmaShortWindow
    /\ latest_price * SmaShortWindow > sma_20_sum

\* latest_velocity > 0
PositiveVelocity(latest_velocity) == latest_velocity # NaN /\ latest_velocity > 0

\* latest_curvature < 0
EarlyImpulse(latest_curvature) == latest_curvature # NaN /\ latest_curvature < 0

\* latest_institutional_factor > 1.2
VolumeValidation(factor) ==
    factor = Inf \/ (factor # -Inf /\ 10 * factor > 12 * Scale)

\* a confidence score whose last component is not capped at 1.0
ConfidenceScoreUncapped(trend_confirmation, positive_velocity, early_impulse, factor) ==
    LET One == 2 * Scale
        Bit(b) == IF b THEN One ELSE 0
    IN  Bit(trend_confirmation) + Bit(positive_velocity) + Bit(early_impulse) + factor

\* sum(confidence_components) / len(confidence_components), in units of
\* 1/(8*Scale): the components are 1.0 or 0.0 for the three conditions and
\* min(latest_institutional_factor / 2.0, 1.0)
ConfidenceScore(trend_confirmation, positive_velocity, early_impulse, factor) ==
    LET One == 2 * Scale
        Bit(b) == IF b THEN One ELSE 0
    IN  IF factor = -Inf THEN -Inf
        ELSE Bit(trend_confirmation) + Bit(positive_velocity) + Bit(early_impulse)
             + (IF factor = Inf THEN One ELSE Min2(factor, One))

\* confidence_score > 0.7
ConfidenceAbove07(confidence_score) ==
    confidence_score # -Inf /\ 10 * confidence_score > 7 * 8 * Scale

\* a classification that leaves the volume validation out of the entry logic
SignalTypeAnyVolume(trend_confirmation, positive_velocity, early_impulse, volume_validation, confidence_score) ==
    IF /\ trend_confirmation
       /\ positive_velocity
       /\ early_impulse
       /\ ConfidenceAbove07(confidence_score)
    THEN "LONG"
    ELSE "HOLD"

\* signal_type: "HOLD" unless every entry condition holds
SignalType(trend_confirmation, positive_velocity, early_impulse, volume_validation, confidence_score) ==
    IF /\ trend_confirmation
       /\ positive_velocity
       /\ early_impulse
       /\ volume_validation
       /\ ConfidenceAbove07(confidence_score)
    THEN "LONG"
    ELSE "HOLD"

\* a stop level above the price
StopLevelAbove(latest_price, latest_atr_sum, multiplier) ==
    latest_price * AtrPeriod + latest_atr_sum * multiplier

\* a stop level that moves with the time of the evaluation
StopLevelDrifting(latest_price, latest_atr_sum, multiplier) ==
    latest_price * AtrPeriod - latest_atr_sum * multiplier - clock

\* a stop level with the multipliers 2 and 3 exchanged
StopLevelExchanged(latest_price, latest_atr_sum, multiplier) ==
    latest_price * AtrPeriod - latest_atr_sum * (5 - multiplier)

\* latest_price - (latest_atr * multiplier), in units of 1/AtrPeriod
StopLevel(latest_price, latest_atr_sum, multiplier) ==
    IF latest_atr_sum = NaN THEN NaN
    ELSE latest_price * AtrPeriod - latest_atr_sum * multiplier

\* the indicators over a history and their latest values (.iloc[-1])
LatestValues(stock_data) ==
    LET close  == Column(stock_data, "Close")
        volume == Column(stock_data, "Volume")
        price_velocity     == calculate_price_velocity(close)
        price_curvature    == calculate_price_curvature(close)
        volume_sensitivity == calculate_volume_sensitivity(close, volume)
        moving_averages    == calculate_moving_averages(close)
        atr == calculate_average_true_range(Column(stock_data, "High"),
                   Column(stock_data, "Low"), close, AtrPeriod)
        institutional_factor ==
            detect_institutional_volume_participation(volume, close)
    IN  [latest_price                |-> ILocLast(close),
         latest_velocity             |-> ILocLast(price_velocity),
         latest_curvature            |-> ILocLast(price_curvature),
         latest_volume_sensitivity   |-> ILocLast(volume_sensitivity),
         latest_atr                  |-> ILocLast(atr),
         latest_institutional_factor |-> ILocLast(institutional_factor),
         latest_sma_20               |-> ILocLast(moving_averages.sma_20),
         latest_sma_200              |-> ILocLast(moving_averages.sma_200)]

\* stock_data.empty or len(stock_data) < 200, by the id of the history
Insufficient(id) == InsufficientData(DownloadHistory(id))

\* the latest values over every history that is long enough (computed once)
LatestOf ==
    [id \in {h \in HistoryIds : ~Insufficient(h)} |->
        LatestValues(DownloadHistory(id))]

\* the PDMSignal built from the latest values at time now
BuildSignal(symbol, v, now) ==
    LET trend_confirmation ==
            TrendConfirmation(v.latest_sma_20, v.latest_sma_200, v.latest_price)
        positive_velocity == PositiveVelocity(v.latest_velocity)
        early_impulse     == EarlyImpulse(v.latest_curvature)
        volume_validation == VolumeValidation(v.latest_institutional_factor)
        confidence_score  ==
            ConfidenceScore(trend_confirmation, positive_velocity, early_impulse,
                            v.latest_institutional_factor)
    IN  [symbol             |-> symbol,
         signal_type        |-> SignalType(trend_confirmation, positive_velocity,
                                    early_impulse, volume_validation, confidence_score),
         price              |-> v.latest_price,
         timestamp          |-> now,
         price_velocity     |-> v.latest_velocity,
         price_curvature    |-> v.latest_curvature,
         volume_sensitivity |-> v.latest_volume_sensitivity,
         atr_stop_loss      |-> StopLevel(v.latest_price, v.latest_atr,
                                    engine.atr_hard_stop_multiplier),
         trailing_stop      |-> StopLevel(v.latest_price, v.latest_atr,
                                    engine.atr_trailing_stop_multiplier),
         confidence_score   |-> confidence_score,
         institutional_volume_factor |-> v.latest_institutional_factor]

\* the body of the try: raised (the fetch raised, or Rolling.corr refused the
\* Rolling object it is handed), else what is returned and logged
SignalBody(symbol) ==
    IF provider[symbol] = "raise"
    THEN [raised |-> TRUE, result |-> None, log |-> <<>>]
    ELSE IF Insufficient(provider[symbol])
    THEN [raised |-> FALSE, result |-> None,
          log |-> <<LogRecord("warning", symbol)>>]
    ELSE IF ~corr_accepts_rolling
    THEN [raised |-> TRUE, result |-> None, log |-> <<>>]
    ELSE [raised |-> FALSE,
          result |-> <<BuildSignal(symbol, LatestOf[provider[symbol]], clock)>>,
          log |-> <<>>]

\* the body without its except clause
generate_pdm_signals_unguarded(symbol) == SignalBody(symbol)

\* a try that lets the exception of its body through
TryReraise(symbol, r) == r

\* what the try, of body outcome r, makes of it
TryExcept(symbol, r) ==
    IF r.raised
    THEN \* except Exception: logger.error(...); return None
         [result |-> None, raised |-> FALSE, log |-> <<LogRecord("error", symbol)>>]
    ELSE [result |-> r.result, raised |-> FALSE, log |-> r.log]

generate_pdm_signals(symbol) == TryExcept(symbol, SignalBody(symbol))

-----------------------------------------------------------------------------
(* scan_universe_for_opportunities *)

\* seq[:n] for n >= 0
Take(seq, n) == SubSeq(seq, 1, Min2(Len(seq), n))

\* the last n elements of seq
TakeLast(seq, n) == SubSeq(seq, Len(seq) - Min2(Len(seq), n) + 1, Len(seq))

\* every signal is kept, a HOLD too
KeepAnySignal(signal) == signal # None

\* signal and signal.signal_type == "LONG"
KeepSignal(signal) == signal # None /\ signal[1].signal_type = "LONG"

\* a loop body that hands the confidence of the signal collected last to the next
ScanStepCarrying(acc, symbol, g) ==
    IF KeepSignal(g.result)
    THEN [acc EXCEPT
             !.result = @ \o <<[g.result[1] EXCEPT !.confidence_score =
                                   IF acc.result = <<>> THEN @
                                   ELSE acc.result[Len(acc.result)].confidence_score]>>,
             !.log = @ \o g.log \o <<LogRecord("info", symbol)>>]
    ELSE [acc EXCEPT !.log = @ \o g.log]

\* one pass of the loop body for a symbol, g being what generate_pdm_signals
\* did for it; the loop has no try, so an exception out of it would leave the
\* loop and the scan
ScanStep(acc, symbol, g) ==
    IF g.raised
    THEN [acc EXCEPT !.result = <<>>, !.raised = TRUE, !.log = @ \o g.log]
    ELSE IF KeepSignal(g.result)
    THEN [acc EXCEPT !.result = @ \o g.result,
                     !.log = @ \o g.log \o <<LogRecord("info", symbol)>>]
    ELSE [acc EXCEPT !.log = @ \o g.log]

RECURSIVE ScanLoop(_, _, _)
\* the for loop over liquid_stocks[:10] from index i on
ScanLoop(liquid_stocks, i, acc) ==
    IF i > Len(liquid_stocks) \/ acc.raised
    THEN acc
    ELSE ScanLoop(liquid_stocks, i + 1,
             ScanStep(acc, liquid_stocks[i], generate_pdm_signals(liquid_stocks[i])))

\* one element put into the sorted list in front of those it ties with
InsertBeforeTies(sorted, signal) ==
    LET before == {i \in 1..Len(sorted) :
                      sorted[i].confidence_score > signal.confidence_score}
        k == Cardinality(before)
    IN  SubSeq(sorted, 1, k) \o <<signal>> \o SubSeq(sorted, k + 1, Len(sorted))

\* one element put in front of its ties once time has passed, behind them before
InsertByClock(sorted, signal) ==
    LET before == {i \in 1..Len(sorted) :
                      \/ sorted[i].confidence_score > signal.confidence_score
                      \/ /\ clock = 0
                         /\ sorted[i].confidence_score = signal.confidence_score}
        k == Cardinality(before)
    IN  SubSeq(sorted, 1, k) \o <<signal>> \o SubSeq(sorted, k + 1, Len(sorted))

\* one element put into a list sorted by confidence_score, highest first, behind
\* every element that does not rank lower (list.sort is stable, reverse=True too)
InsertByConfidence(sorted, signal) ==
    LET before == {i \in 1..Len(sorted) :
                      sorted[i].confidence_score >= signal.confidence_score}
        k == Cardinality(before)
    IN  SubSeq(sorted, 1, k) \o <<signal>> \o SubSeq(sorted, k + 1, Len(sorted))

RECURSIVE SortFrom(_, _, _)
SortFrom(signals, i, sorted) ==
    IF i > Len(signals) THEN sorted
    ELSE SortFrom(signals, i + 1, InsertByConfidence(sorted, signals[i]))

\* signals.sort(key=lambda x: x.confidence_score, reverse=True)
SortByConfidence(signals) == SortFrom(signals, 1, <<>>)

\* signals[:self.maximum_positions]
Truncate(signals, maximum_positions) == Take(signals, maximum_positions)

\* the loop over the first EvaluationCap symbols the filter retained
ScanLiquid(filtered) ==
    IF filtered.raised THEN filtered
    ELSE ScanLoop(Take(filtered.result, EvaluationCap), 1,
             [result |-> <<>>, raised |-> FALSE, log |-> filtered.log])

\* the collected signals sorted and cut to maximum_positions
RankSignals(scanned) ==
    IF scanned.raised THEN scanned
    ELSE [scanned EXCEPT
             !.result = Truncate(SortByConfidence(@), engine.maximum_positions)]

scan_universe_for_opportunities ==
    RankSignals(ScanLiquid(filter_stocks_by_liquidity(engine.indian_market_symbols)))

-----------------------------------------------------------------------------
(* The state machine: an engine, the provider it reads and its callers *)

\* the lists of at most n symbols
RECURSIVE SymbolLists(_)
SymbolLists(n) ==
    IF n = 0 THEN {<<>>}
    ELSE LET shorter == SymbolLists(n - 1)
         IN  shorter \cup {Append(l, s) : l \in shorter, s \in Symbols}

\* the lists made of some of the elements of seq, in the order of seq
Sublists(seq) ==
    {[k \in 1..Cardinality(I) |->
         seq[CHOOSE i \in I : Cardinality({j \in I : j < i}) = k - 1]] :
     I \in SUBSET (1..Len(seq))}

\* the last call made on the engine: the operation, its argument, what it
\* returned, whether it raised and what it logged
Called(op, arg, outcome) ==
    [op |-> op, arg |-> arg, result |-> outcome.result, raised |-> outcome.raised,
     log |-> outcome.log]

NoCall == [op |-> "none", arg |-> <<>>, result |-> <<>>, raised |-> FALSE, log |-> <<>>]

\* prediction_results_cache = {} when app.py is loaded
EmptyCache == <<>>

\* the histories a scan tells apart: none, empty, too short, HOLD and LONG ones
ScanOutcomes == {"raise", "empty", "short", "quiet", "mild", "medium", "strong"}

\* the histories the liquidity filter tells apart
FilterOutcomes == {"raise", "empty", "poor", "edge", "rich"}

\* the min_liquidity arguments of the constructor: the default and the test's
MinLiquidityArgs == {DefaultMinLiquidity, 500000}

InitWith(outcomes, min_liquidities) ==
    /\ engine \in {NewEngine(DefaultLookbackPeriod, m) : m \in min_liquidities}
    /\ provider \in [Symbols -> outcomes]
    /\ corr_accepts_rolling \in BOOLEAN
    /\ clock = 0
    /\ call = NoCall
    /\ prediction_results_cache = EmptyCache

Init == InitWith(ScanOutcomes, {DefaultMinLiquidity})

\* filter_stocks_by_liquidity(symbols)
Filter(symbols) ==
    /\ call' = Called("filter", symbols, filter_stocks_by_liquidity(symbols))
    /\ UNCHANGED <<engine, provider, corr_accepts_rolling, clock, prediction_results_cache>>

\* generate_pdm_signals(symbol)
Generate(symbol) ==
    /\ call' = Called("generate", <<symbol>>, generate_pdm_signals(symbol))
    /\ UNCHANGED <<engine, provider, corr_accepts_rolling, clock, prediction_results_cache>>

\* scan_universe_for_opportunities()
Scan ==
    /\ call' = Called("scan", <<>>, scan_universe_for_opportunities)
    /\ UNCHANGED <<engine, provider, corr_accepts_rolling, clock, prediction_results_cache>>

\* time passes (datetime.now() is later)
Tick ==
    /\ clock < MaxClock
    /\ clock' = clock + 1
    /\ UNCHANGED <<engine, provider, corr_accepts_rolling, call, prediction_results_cache>>

\* a caller assigns engine.maximum_positions
Configure(n) ==
    /\ engine.maximum_positions # n
    /\ engine' = [engine EXCEPT !.maximum_positions = n]
    /\ UNCHANGED <<provider, corr_accepts_rolling, clock, call, prediction_results_cache>>

Next ==
    \/ \E symbols \in Sublists(get_nifty_500_universe) : Filter(symbols)
    \/ \E symbol \in Symbols : Generate(symbol)
    \/ Scan
    \/ Tick
    \/ \E n \in (1..MaxAssignedPositions) \cup {DefaultMaximumPositions} : Configure(n)

Spec == Init /\ [][Next]_vars

\* the liquidity filter alone, over every kind of recent data and both thresholds
InitFilter == InitWith(FilterOutcomes, MinLiquidityArgs)

NextFilter == \E symbols \in SymbolLists(MaxSymbols) : Filter(symbols)

SpecFilter == InitFilter /\ [][NextFilter]_vars

\* the engines a caller has assigned maximum_positions of before using them
ConfiguredEngines ==
    {[NewEngine(DefaultLookbackPeriod, DefaultMinLiquidity) EXCEPT !.maximum_positions = n] :
        n \in (1..MaxAssignedPositions) \cup {DefaultMaximumPositions}}

\* scans alone, repeated as time passes, on an engine configured once
InitScan ==
    /\ engine \in ConfiguredEngines
    /\ provider \in [Symbols -> ScanOutcomes]
    /\ corr_accepts_rolling \in BOOLEAN
    /\ clock = 0
    /\ call = NoCall
    /\ prediction_results_cache = EmptyCache

NextScan ==
    \/ Scan
    \/ Tick

SpecScan == InitScan /\ [][NextScan]_vars

\* signal generation alone, over every history, as time passes
\* scans of a sample universe longer than the slice the scan loop walks
WideUniverse ==
    <<"W01", "W02", "W03", "W04", "W05", "W06", "W07", "W08", "W09", "W10", "W11">>

WideOutcomes == {"short", "strong"}

InitWide ==
    /\ engine = [NewEngine(DefaultLookbackPeriod, DefaultMinLiquidity)
                    EXCEPT !.indian_market_symbols = WideUniverse]
    /\ provider \in [{WideUniverse[i] : i \in DOMAIN WideUniverse} -> WideOutcomes]
    /\ corr_accepts_rolling \in BOOLEAN
    /\ clock = 0
    /\ call = NoCall
    /\ prediction_results_cache = EmptyCache

NextWide ==
    \/ Scan
    \/ Tick

SpecWide == InitWide /\ [][NextWide]_vars

(* The indicator methods called on their own: one call on drawn series *)

\* the series of test_ml_service.py
TestPrices == <<100, 101, 103, 102, 105>>
TestSensitivityPrices == <<100, 102, 101, 104, 103>>
TestVolumes == <<1000, 1200, 800, 1500, 1100>>

SeriesOver(values) == UNION {[1..n -> values] : n \in 1..MaxSeriesLen}

PriceInputs == SeriesOver({1, 2, 4}) \cup {TestPrices}

\* prices and volumes of one length; a float series may hold inf
SensitivityInputs ==
    UNION {[1..n -> {1, 2, Inf}] \X [1..n -> {1, 2, Inf}] : n \in 1..MaxSeriesLen}
        \cup {<<TestSensitivityPrices, TestVolumes>>}

\* high, low and close of one length, bars with high < low among them
BarInputs ==
    UNION {[1..n -> {1, 3}] \X [1..n -> {1, 3}] \X [1..n -> {1, 3}] :
              n \in 1..MaxSeriesLen}

Periods == (1..MaxPeriod) \cup {AtrPeriod}

\* volumes and prices of one length: the provider's histories, and short series
\* with bars of no volume
ParticipationInputs ==
    {<<Column(BarsOf(Histories[id]), "Volume"), Column(BarsOf(Histories[id]), "Close")>> :
        id \in {id \in HistoryIds : Histories[id] # <<>>}}
        \cup {<<v, [t \in DOMAIN v |-> 100 + t]>> : v \in SeriesOver({0, 5})}

\* pd.Series(range(1, 51)) of test_ml_service.py
TestRange == [t \in 1..50 |-> t]

\* closes for the moving averages: short series, the test's, the provider's histories
AverageInputs ==
    PriceInputs \cup {TestRange}
        \cup {Column(BarsOf(Histories[id]), "Close") :
                  id \in {id \in HistoryIds : Histories[id] # <<>>}}

Returned(series) == [result |-> series, raised |-> FALSE, log |-> <<>>]

Raised == [result |-> None, raised |-> TRUE, log |-> <<>>]

\* the call of detect_institutional_volume_participation: Rolling.corr is handed a
\* Rolling object, which the installed pandas accepts or refuses with ValueError
InstitutionalParticipation(volume_series, price_series) ==
    IF ~corr_accepts_rolling THEN Raised
    ELSE Returned(detect_institutional_volume_participation(volume_series,
                                                            price_series))

\* the model follows one call of one method on one drawn input
Velocity ==
    /\ call.op = "none"
    /\ \E price_series \in PriceInputs :
          call' = Called("calculate_price_velocity", <<price_series>>,
                         Returned(calculate_price_velocity(price_series)))
    /\ UNCHANGED <<engine, provider, corr_accepts_rolling, clock, prediction_results_cache>>

Curvature ==
    /\ call.op = "none"
    /\ \E price_series \in PriceInputs :
          call' = Called("calculate_price_curvature", <<price_series>>,
                         Returned(calculate_price_curvature(price_series)))
    /\ UNCHANGED <<engine, provider, corr_accepts_rolling, clock, prediction_results_cache>>

VolumeSensitivity ==
    /\ call.op = "none"
    /\ \E input \in SensitivityInputs :
          call' = Called("calculate_volume_sensitivity", input,
                         Returned(calculate_volume_sensitivity(input[1], input[2])))
    /\ UNCHANGED <<engine, provider, corr_accepts_rolling, clock, prediction_results_cache>>

AverageTrueRange ==
    /\ call.op = "none"
    /\ \E bars \in BarInputs, period \in Periods :
          call' = Called("calculate_average_true_range",
                         <<bars[1], bars[2], bars[3], period>>,
                         Returned(calculate_average_true_range(bars[1], bars[2],
                                                               bars[3], period)))
    /\ UNCHANGED <<engine, provider, corr_accepts_rolling, clock, prediction_results_cache>>

MovingAverages ==
    /\ call.op = "none"
    /\ \E price_series \in AverageInputs :
          call' = Called("calculate_moving_averages", <<price_series>>,
                         Returned(calculate_moving_averages(price_series)))
    /\ UNCHANGED <<engine, provider, corr_accepts_rolling, clock, prediction_results_cache>>

InstitutionalVolume ==
    /\ call.op = "none"
    /\ \E input \in ParticipationInputs :
          call' = Called("detect_institutional_volume_participation", input,
                         InstitutionalParticipation(input[1], input[2]))
    /\ UNCHANGED <<engine, provider, corr_accepts_rolling, clock, prediction_results_cache>>

InitIndicators == InitWith({"raise"}, {DefaultMinLiquidity})

NextIndicators ==
    \/ Velocity
    \/ Curvature
    \/ VolumeSensitivity
    \/ AverageTrueRange
    \/ MovingAverages
    \/ InstitutionalVolume

SpecIndicators == InitIndicators /\ [][NextIndicators]_vars

(* backtest_pdm_strategy *)

\* the benchmark index the backtest downloads
Benchmark == "^NSEI"

\* Series.iloc[0]; on an empty series .iloc[0] and .iloc[-1] raise IndexError
ILocFirst(s) == s[1]

\* strategy_return = 42.8, in tenths of a percent
StrategyReturnTenths == 428

\* a benchmark return over the last close
BenchmarkReturnOverLast(closes) ==
    <<1000 * (ILocLast(closes) - ILocFirst(closes)), ILocLast(closes)>>

\* ((Close.iloc[-1] / Close.iloc[0]) - 1) * 100 in tenths of a percent, the
\* exact quotient <<numerator, denominator>>
BenchmarkReturn(closes) ==
    <<1000 * (ILocLast(closes) - ILocFirst(closes)), ILocFirst(closes)>>

\* strategy_return - benchmark_return, as a quotient in tenths
Outperformance(strategy_return, benchmark_return) ==
    <<strategy_return * benchmark_return[2] - benchmark_return[1], benchmark_return[2]>>

\* f"{x:.1f}%": the decimal of one fractional digit nearest to the float, as a
\* number of tenths.  The float differs from the exact quotient by its rounding
\* error, so where the quotient lies half way between two tenths either of the
\* two can be the one printed.
FormatTenths(quotient) ==
    LET floor == quotient[1] \div quotient[2]
        twice == 2 * (quotient[1] - floor * quotient[2])
    IN  IF twice < quotient[2] THEN {floor}
        ELSE IF twice > quotient[2] THEN {floor + 1}
        ELSE {floor, floor + 1}

BacktestFailed == [error |-> "Backtest failed"]

\* the dictionary returned for the two formatted returns
BacktestReport(start_date, end_date, benchmark_return, outperformance) ==
    [strategy_return  |-> StrategyReturnTenths,
     benchmark_return |-> benchmark_return,
     outperformance   |-> outperformance,
     period           |-> <<start_date, end_date>>,
     max_positions    |-> engine.maximum_positions,
     methodology      |-> "Calculus-based PDM with institutional volume analysis"]

\* the body of the try over the frame yf.download gave: the outcomes it can have
BacktestBody(nifty_data, start_date, end_date) ==
    IF nifty_data.raised \/ nifty_data.Close = <<>>
    THEN {[raised |-> TRUE, result |-> BacktestFailed, log |-> <<>>]}
    ELSE {[raised |-> FALSE, log |-> <<>>,
           result |-> BacktestReport(start_date, end_date, b, o)] :
              b \in FormatTenths(BenchmarkReturn(nifty_data.Close)),
              o \in FormatTenths(Outperformance(StrategyReturnTenths,
                                                BenchmarkReturn(nifty_data.Close)))}

\* an except clause that lets the exception go on
BacktestReraise(r) == r

\* except Exception: logger.error(...); return {'error': 'Backtest failed'}
BacktestExcept(r) ==
    IF r.raised
    THEN [raised |-> FALSE, result |-> BacktestFailed,
          log |-> <<LogRecord("error", Benchmark)>>]
    ELSE r

backtest_pdm_strategy(start_date, end_date) ==
    {BacktestExcept(r) : r \in BacktestBody(provider[Benchmark], start_date, end_date)}

\* the closes of the benchmark in a date range
BenchmarkSeries == {<<>>} \cup SeriesOver({16, 17, 20})

\* what yf.download('^NSEI', ...) does: it raises, or returns a frame
BenchmarkOutcomes ==
    {[raised |-> TRUE, Close |-> <<>>]}
        \cup {[raised |-> FALSE, Close |-> closes] : closes \in BenchmarkSeries}

Dates == {"2024-01-01", "2024-12-31"}

Backtest ==
    /\ Benchmark \in DOMAIN provider
    /\ \E start_date \in Dates, end_date \in Dates :
          \E outcome \in backtest_pdm_strategy(start_date, end_date) :
              call' = Called("backtest", <<start_date, end_date>>, outcome)
    /\ UNCHANGED <<engine, provider, corr_accepts_rolling, clock, prediction_results_cache>>

InitBacktest ==
    /\ engine \in ConfiguredEngines
    /\ provider \in [{Benchmark} -> BenchmarkOutcomes]
    /\ corr_accepts_rolling \in BOOLEAN
    /\ clock = 0
    /\ call = NoCall
    /\ prediction_results_cache = EmptyCache

NextBacktest ==
    \/ Backtest
    \/ Tick

SpecBacktest == InitBacktest /\ [][NextBacktest]_vars

(* scan_universe_for_opportunities statement by statement: the call blocks in
   each yf.download until the provider has answered *)

\* "hang": the provider never answers the download of the symbol; the engine
\* passes yf.download no timeout and sets none of its own
StepOutcomes == {"hang", "raise", "mild", "strong"}

\* every download of the symbols returns or raises
Responds(symbols) == \A i \in 1..Len(symbols) : provider[symbols[i]] # "hang"

\* the for loop has one symbol left
LoopDoneEarly(liquid_stocks, i) == i >= Len(liquid_stocks)

\* the for loop has walked the whole slice
LoopDone(liquid_stocks, i) == i > Len(liquid_stocks)

\* scan_universe_for_opportunities is entered
ScanCall ==
    /\ call.op \in {"none", "scan"}
    /\ call' = [op |-> "scan:called", arg |-> <<>>, result |-> <<>>,
                raised |-> FALSE, log |-> <<>>]
    /\ UNCHANGED <<engine, provider, corr_accepts_rolling, clock, prediction_results_cache>>

\* line 318: the liquidity filter, a download for every symbol of the universe
ScanFilter ==
    /\ call.op = "scan:called"
    /\ Responds(engine.indian_market_symbols)
    /\ call' = [op |-> "scan:loop", raised |-> FALSE, result |-> <<>>,
                arg |-> <<Take(filter_stocks_by_liquidity(
                                   engine.indian_market_symbols).result,
                               EvaluationCap), 1>>,
                log |-> filter_stocks_by_liquidity(engine.indian_market_symbols).log]
    /\ UNCHANGED <<engine, provider, corr_accepts_rolling, clock, prediction_results_cache>>

\* lines 322-326: one pass of the loop, with the download of generate_pdm_signals
ScanEvaluate ==
    /\ call.op = "scan:loop"
    /\ ~LoopDone(call.arg[1], call.arg[2])
    /\ provider[call.arg[1][call.arg[2]]] # "hang"
    /\ call' = Called("scan:loop", <<call.arg[1], call.arg[2] + 1>>,
                      ScanStep([result |-> call.result, raised |-> call.raised,
                                log |-> call.log],
                               call.arg[1][call.arg[2]],
                               generate_pdm_signals(call.arg[1][call.arg[2]])))
    /\ UNCHANGED <<engine, provider, corr_accepts_rolling, clock, prediction_results_cache>>

\* line 329: the sort, after the loop
ScanSort ==
    /\ call.op = "scan:loop"
    /\ LoopDone(call.arg[1], call.arg[2])
    /\ call' = [call EXCEPT !.op = "scan:sorted", !.result = SortByConfidence(@)]
    /\ UNCHANGED <<engine, provider, corr_accepts_rolling, clock, prediction_results_cache>>

\* line 332: the slice returned
ScanReturn ==
    /\ call.op = "scan:sorted"
    /\ call' = [call EXCEPT !.op = "scan", !.arg = <<>>,
                            !.result = Truncate(@, engine.maximum_positions)]
    /\ UNCHANGED <<engine, provider, corr_accepts_rolling, clock, prediction_results_cache>>

InitSteps ==
    /\ engine \in ConfiguredEngines
    /\ provider \in [Symbols -> StepOutcomes]
    /\ corr_accepts_rolling \in BOOLEAN
    /\ clock = 0
    /\ call = NoCall
    /\ prediction_results_cache = EmptyCache

NextSteps ==
    \/ ScanCall
    \/ ScanFilter
    \/ ScanEvaluate
    \/ ScanSort
    \/ ScanReturn
    \/ Tick

SpecSteps == InitSteps /\ [][NextSteps]_vars

\* the interpreter runs the next statement of a call that is not blocked
SpecStepsFair ==
    /\ SpecSteps
    /\ WF_vars(ScanFilter)
    /\ WF_vars(ScanEvaluate)
    /\ WF_vars(ScanSort)
    /\ WF_vars(ScanReturn)

(* The four operations of one engine, called in any order *)

FrameOutcomes == {"raise", "mild", "strong"}

FrameBenchmarks ==
    {[raised |-> TRUE, Close |-> <<>>], [raised |-> FALSE, Close |-> <<>>],
     [raised |-> FALSE, Close |-> <<16, 17>>]}

\* the provider of the symbols together with the benchmark index
ProviderWith(histories, nifty_data) ==
    [s \in Symbols \cup {Benchmark} |->
        IF s = Benchmark THEN nifty_data ELSE histories[s]]

InitFrame ==
    /\ engine = NewEngine(DefaultLookbackPeriod, DefaultMinLiquidity)
    /\ provider \in {ProviderWith(h, b) : h \in [Symbols -> FrameOutcomes],
                                          b \in FrameBenchmarks}
    /\ corr_accepts_rolling \in BOOLEAN
    /\ clock = 0
    /\ call = NoCall
    /\ prediction_results_cache = EmptyCache

NextFrame ==
    \/ \E symbols \in Sublists(get_nifty_500_universe) : Filter(symbols)
    \/ \E symbol \in Symbols : Generate(symbol)
    \/ Scan
    \/ Backtest
    \/ Tick
    \/ \E n \in (1..MaxAssignedPositions) \cup {DefaultMaximumPositions} : Configure(n)

SpecFrame == InitFrame /\ [][NextFrame]_vars

(* The entry logic in IEEE double arithmetic, for an institutional factor near
   the threshold.  The factor is the double nearest 1.2 (the value of the
   literal 1.2) plus k units in its last place, 2^-52.  With u = 2^-53, half of
   it is the double 0.6 plus k*u, exactly.  sum() adds the three 1.0 or 0.0
   first, n of them 1.0, exactly, and then the half factor, rounding n + 0.6 +
   k*u to the doubles between n and 2n, which lie 4u apart for n = 2 and 3 and
   2u apart for n = 1: the nearest one, and of two equally near the one of even
   significand.  The doubles 3.6 and 0.9 are 3 + 0.6 + 1u and a quarter of it.
   Dividing by 4 is exact.  A sum is held as <<n, r>>, standing for
   n + 0.6 + r*u, and the confidence score as the same pair, standing for a
   quarter of it. *)

\* the distance of two neighbouring doubles at n + 0.6, in units of u
SumGrid(n) == IF n >= 2 THEN 4 ELSE IF n = 1 THEN 2 ELSE 1

\* n + 0.6 + r*u is a double and its significand is even
EvenSignificand(n, r) == ((r - 1) \div SumGrid(n)) % 2 = (IF n = 1 THEN 0 ELSE 1)

\* the float sum n + (0.6 + k*u): r with n + 0.6 + r*u the double it rounds to
FloatSum(n, k) ==
    LET lower == k - ((k - 1) % SumGrid(n))
        upper == lower + SumGrid(n)
    IN  IF 2 * (k - lower) < SumGrid(n) THEN lower
        ELSE IF 2 * (k - lower) > SumGrid(n) THEN upper
        ELSE IF EvenSignificand(n, lower) THEN lower ELSE upper

\* sum(confidence_factors) / len(confidence_factors), lines 271-279
FloatConfidenceScore(trend_confirmation, positive_velocity, early_impulse, k) ==
    LET n == (IF trend_confirmation THEN 1 ELSE 0) + (IF positive_velocity THEN 1 ELSE 0)
                 + (IF early_impulse THEN 1 ELSE 0)
    IN  <<n, FloatSum(n, k)>>

\* a volume validation met two units below the threshold already
FloatVolumeValidationBelow(k) == k >= -2

\* latest_institutional_factor > 1.2
FloatVolumeValidation(k) == k > 0

\* confidence_score > 0.7: (n + 0.6 + r*u) / 4 with |r*u| < 2^-49 is above 0.7
\* exactly when n = 3
FloatConfidenceAbove07(confidence_score) == confidence_score[1] = 3

\* lines 281-286
FloatSignalType(trend_confirmation, positive_velocity, early_impulse, k) ==
    IF /\ trend_confirmation
       /\ positive_velocity
       /\ early_impulse
       /\ FloatVolumeValidation(k)
       /\ FloatConfidenceAbove07(FloatConfidenceScore(trend_confirmation,
                                     positive_velocity, early_impulse, k))
    THEN "LONG"
    ELSE "HOLD"

\* the entry logic of generate_pdm_signals on drawn conditions and a drawn factor
Classify ==
    /\ call.op = "none"
    /\ \E trend_confirmation \in BOOLEAN, positive_velocity \in BOOLEAN,
          early_impulse \in BOOLEAN, k \in -MaxUlps..MaxUlps :
          call' = Called("classify",
                         <<trend_confirmation, positive_velocity, early_impulse, k>>,
                         Returned([signal_type |->
                                       FloatSignalType(trend_confirmation,
                                           positive_velocity, early_impulse, k),
                                   confidence_score |->
                                       FloatConfidenceScore(trend_confirmation,
                                           positive_velocity, early_impulse, k)]))
    /\ UNCHANGED <<engine, provider, corr_accepts_rolling, clock, prediction_results_cache>>

InitConfidence == InitWith({"raise"}, {DefaultMinLiquidity})

NextConfidence == Classify

SpecConfidence == InitConfidence /\ [][NextConfidence]_vars

(* app.py: the /predict handler and its cache.  Here the clock counts seconds. *)

\* cache_key = f"{ticker_symbol}_{prediction_days}_{include_pdm_analysis}", kept
\* as the triple it is formatted from
CacheKeys == {<<"AAPL", 1, include_pdm>> : include_pdm \in BOOLEAN}

\* the times at which requests arrive: around the timeout, and a day later
CacheTimes ==
    {0, PredictionCacheTimeoutSeconds - 1, PredictionCacheTimeoutSeconds,
     SecondsPerDay, SecondsPerDay + PredictionCacheTimeoutSeconds - 1,
     SecondsPerDay + PredictionCacheTimeoutSeconds}

\* (datetime.now() - cache_timestamp).seconds for now >= cache_timestamp: the
\* seconds field of the timedelta, which leaves its days out
TimedeltaSeconds(now, cache_timestamp) == (now - cache_timestamp) % SecondsPerDay

\* lines 374-379: the key is cached and its entry passes the age test
ServedFromCache(cache_key) ==
    /\ cache_key \in DOMAIN prediction_results_cache
    /\ TimedeltaSeconds(clock, prediction_results_cache[cache_key].timestamp)
           < PredictionCacheTimeoutSeconds

\* prediction_response: what is told apart here is its key, status and timestamp
PredictionResponse(cache_key, status) ==
    [key |-> cache_key, status |-> status, timestamp |-> clock]

\* prediction_results_cache[cache_key] = prediction_response
CachePut(cache_key, prediction_response) ==
    [k \in DOMAIN prediction_results_cache \cup {cache_key} |->
        IF k = cache_key THEN prediction_response ELSE prediction_results_cache[k]]

\* POST /predict; computed: the model, the data and the prediction are available,
\* otherwise the handler answers with an error and caches nothing
Predict(cache_key, computed) ==
    /\ IF ServedFromCache(cache_key)
       THEN /\ call' = Called("predict", <<cache_key, clock>>,
                             Returned(prediction_results_cache[cache_key]))
            /\ UNCHANGED prediction_results_cache
       ELSE IF computed
       THEN /\ call' = Called("predict", <<cache_key, clock>>,
                             Returned(PredictionResponse(cache_key, 200)))
            /\ prediction_results_cache'
                  = CachePut(cache_key, PredictionResponse(cache_key, 200))
       ELSE /\ call' = Called("predict", <<cache_key, clock>>,
                             Returned(PredictionResponse(cache_key, 500)))
            /\ UNCHANGED prediction_results_cache
    /\ UNCHANGED <<engine, provider, corr_accepts_rolling, clock>>

\* time passes until the next request
Elapse ==
    /\ \E now \in CacheTimes : now > clock /\ clock' = now
    /\ UNCHANGED <<engine, provider, corr_accepts_rolling, call, prediction_results_cache>>

InitCache == InitWith({"raise"}, {DefaultMinLiquidity})

NextCache ==
    \/ \E cache_key \in CacheKeys, computed \in BOOLEAN : Predict(cache_key, computed)
    \/ Elapse

SpecCache == InitCache /\ [][NextCache]_vars

\* engines constructed with the arguments a caller can pass: __init__ stores
\* lookback_period and min_liquidity as they come
LookbackArgs == {-1, 0, 1, 100, DefaultLookbackPeriod}

ConstructOutcomes == {"raise", "short", "strong"}

InitConstruct ==
    /\ engine \in {NewEngine(l, m) : l \in LookbackArgs, m \in MinLiquidityArgs}
    /\ provider \in [Symbols -> ConstructOutcomes]
    /\ corr_accepts_rolling \in BOOLEAN
    /\ clock = 0
    /\ call = NoCall
    /\ prediction_results_cache = EmptyCache

NextConstruct ==
    \/ \E symbol \in Symbols : Generate(symbol)
    \/ Tick

SpecConstruct == InitConstruct /\ [][NextConstruct]_vars

InitSignal == InitWith(ProviderOutcomes, {DefaultMinLiquidity})

NextSignal ==
    \/ \E symbol \in Symbols : Generate(symbol)
    \/ Tick

SpecSignal == InitSignal /\ [][NextSignal]_vars

-----------------------------------------------------------------------------
(* Properties of generate_pdm_signals *)

\* the call in `call` is a generate_pdm_signals call that returned a PDMSignal
ReturnedSignal == call.op = "generate" /\ call.result # None

\* the number of bars of the history the provider holds for a symbol
BarsHeld(symbol) == SeriesLen(Market[provider[symbol]])

\* the five entry conditions, read from the signal's fields and the latest
\* moving averages (window sums) of the history it was computed from
EntryConditions(sig, v) ==
    /\ v.latest_sma_20 # NaN /\ v.latest_sma_200 # NaN
    /\ v.latest_sma_20 * 200 > v.latest_sma_200 * 20
    /\ sig.price * 20 > v.latest_sma_20
    /\ sig.price_velocity # NaN /\ sig.price_velocity > 0
    /\ sig.price_curvature # NaN /\ sig.price_curvature < 0
    /\ \/ sig.institutional_volume_factor = Inf
       \/ /\ sig.institutional_volume_factor # -Inf
          /\ 10 * sig.institutional_volume_factor > 12 * Scale
    /\ sig.confidence_score # -Inf
    /\ 10 * sig.confidence_score > 7 * 8 * Scale

\* C1: every signal generate_pdm_signals produces is LONG or HOLD, and it is
\* LONG if and only if the trend is confirmed (sma_20 > sma_200 and price >
\* sma_20 at the last bar), the last velocity is positive, the last curvature
\* is negative, the last institutional factor exceeds 1.2 and the confidence
\* score exceeds 0.7; it is HOLD in every other case.
C1_LongIffEntryConditions ==
    ReturnedSignal =>
        LET sig == call.result[1]
            v   == LatestOf[provider[sig.symbol]]
        IN  /\ sig.signal_type \in {"LONG", "HOLD"}
            /\ sig.signal_type = "LONG" <=> EntryConditions(sig, v)
            /\ sig.signal_type = "HOLD" <=> ~EntryConditions(sig, v)

\* a LONG signal was produced
C1_Witness ==
    /\ ReturnedSignal
    /\ call.result[1].signal_type = "LONG"
    /\ provider[call.result[1].symbol] = "medium"

\* C2: for a symbol whose fetched series is empty or has fewer than 200 bars,
\* generate_pdm_signals returns None and never a PDMSignal, whatever the bars.
C2_ShortHistoryYieldsNone ==
    (call.op = "generate" /\ provider[call.arg[1]] # "raise"
        /\ BarsHeld(call.arg[1]) < 200)
    => call.result = None /\ ~call.raised

\* generate_pdm_signals returned None for a history of 199 bars that has every
\* entry condition of a LONG signal in its last bars
C2_Witness ==
    /\ call.op = "generate"
    /\ provider[call.arg[1]] = "short"
    /\ BarsHeld(call.arg[1]) = 199
    /\ corr_accepts_rolling
    /\ call.result = None
    /\ call.log = <<LogRecord("warning", call.arg[1])>>

-----------------------------------------------------------------------------
(* Properties of scan_universe_for_opportunities and of the batches *)

\* the elements of a sequence
Range(seq) == {seq[i] : i \in 1..Len(seq)}

\* the symbols of a list of signals
SymbolsOf(signals) == {signals[i].symbol : i \in 1..Len(signals)}

\* the place of a symbol in the universe the scan walks through
UniverseIndex(symbol) ==
    CHOOSE i \in 1..Len(get_nifty_500_universe) : get_nifty_500_universe[i] = symbol

\* the symbols a scan evaluates to a LONG signal: those the liquidity filter
\* retains, among the first ten, for which generate_pdm_signals returns LONG
LongCandidates ==
    {s \in Range(Take(filter_stocks_by_liquidity(get_nifty_500_universe).result, 10)) :
        LET g == generate_pdm_signals(s)
        IN  g.result # None /\ g.result[1].signal_type = "LONG"}

\* the confidence score of the signal of a symbol
ConfidenceOf(symbol) == generate_pdm_signals(symbol).result[1].confidence_score

\* C3: the signals a scan returns are sorted by confidence score, highest
\* first, and two returned signals of equal confidence are in the order in
\* which the scan met their symbols.
C3_SortedStable ==
    call.op = "scan" =>
        \A i, j \in 1..Len(call.result) :
            i < j =>
                /\ call.result[i].confidence_score >= call.result[j].confidence_score
                /\ call.result[i].confidence_score = call.result[j].confidence_score
                   => UniverseIndex(call.result[i].symbol)
                          < UniverseIndex(call.result[j].symbol)

\* a scan returned three signals, the first two tied and ahead of the signal
\* of the first symbol of the universe
C3_Witness ==
    /\ call.op = "scan"
    /\ Len(call.result) = 3
    /\ call.result[1].confidence_score = call.result[2].confidence_score
    /\ call.result[2].confidence_score > call.result[3].confidence_score
    /\ <<call.result[1].symbol, call.result[2].symbol, call.result[3].symbol>>
           = <<"S2", "S3", "S1">>

\* C4: a scan returns at most maximum_positions signals (25 after
\* construction), and they are the highest-ranked LONG signals of the scan:
\* as many as there are up to maximum_positions, each of them a LONG signal of
\* the scan, and no dropped LONG signal has a higher confidence than a
\* returned one.
C4_TopRankedWithinLimit ==
    /\ engine.maximum_positions = 25
    /\ [][(call'.op = "scan" /\ Scan) =>
            /\ Len(call'.result) <= engine.maximum_positions
            /\ Len(call'.result)
                   = Min2(Cardinality(LongCandidates), engine.maximum_positions)
            /\ SymbolsOf(call'.result) \subseteq LongCandidates
            /\ \A s \in LongCandidates \ SymbolsOf(call'.result) :
                   \A i \in 1..Len(call'.result) :
                       ConfidenceOf(s) <= call'.result[i].confidence_score]_vars

\* with maximum_positions 2, a scan over three LONG signals of three
\* different confidences returned the two highest, in that order
C4_Witness ==
    /\ call.op = "scan"
    /\ engine.maximum_positions = 2
    /\ provider = [S1 |-> "mild", S2 |-> "strong", S3 |-> "medium"]
    /\ Cardinality(LongCandidates) = 3
    /\ Len(call.result) = 2
    /\ <<call.result[1].symbol, call.result[2].symbol>> = <<"S2", "S3">>
    /\ call.result[1].confidence_score > call.result[2].confidence_score
    /\ call.result[2].confidence_score > ConfidenceOf("S1")

\* C5: every signal a scan returns is LONG, and a symbol whose signal is HOLD
\* or that produced no signal is not in the result.
C5_OnlyLong ==
    call.op = "scan" =>
        /\ \A i \in 1..Len(call.result) : call.result[i].signal_type = "LONG"
        /\ \A s \in Symbols :
               LET g == generate_pdm_signals(s)
               IN  (g.result = None \/ g.result[1].signal_type = "HOLD")
                   => s \notin SymbolsOf(call.result)

\* a scan over a HOLD signal, a LONG signal and a history that is too short
\* returned the LONG signal only
C5_Witness ==
    /\ call.op = "scan"
    /\ provider = [S1 |-> "quiet", S2 |-> "strong", S3 |-> "short"]
    /\ generate_pdm_signals("S1").result[1].signal_type = "HOLD"
    /\ generate_pdm_signals("S3").result = None
    /\ Len(call.result) = 1
    /\ call.result[1].symbol = "S2"

\* a symbol fails in the liquidity filter: its fetch raises or brings no data
FailsInFilter(symbol) == provider[symbol] = "raise" \/ BarsHeld(symbol) = 0

\* a symbol fails in a scan: in the filter, or its history is too short, or the
\* computation of its indicators raises
FailsInScan(symbol) ==
    \/ FailsInFilter(symbol)
    \/ BarsHeld(symbol) < 200
    \/ ~corr_accepts_rolling

\* a symbol on its own passes the liquidity filter
PassesFilter(symbol) == filter_stocks_by_liquidity(<<symbol>>).result = <<symbol>>

\* C6: in a batch, the failure of one symbol never aborts the batch.  The
\* liquidity filter and the scan return normally; the filter still retains
\* every symbol of its input that passes on its own; a scan with a LONG signal
\* to find returns a best one first; and an operation in which every symbol
\* fails returns the empty list.
C6_BatchSurvivesFailures ==
    /\ call.op \in {"filter", "scan"} => ~call.raised
    /\ call.op = "filter" =>
           /\ \A i \in 1..Len(call.arg) :
                  PassesFilter(call.arg[i]) => call.arg[i] \in Range(call.result)
           /\ (\A i \in 1..Len(call.arg) : FailsInFilter(call.arg[i]))
                  => call.result = <<>>
    /\ call.op = "scan" =>
           /\ LongCandidates # {} =>
                  /\ call.result # <<>>
                  /\ call.result[1].symbol \in LongCandidates
                  /\ \A s \in LongCandidates :
                         ConfidenceOf(s) <= call.result[1].confidence_score
           /\ (\A s \in Symbols : FailsInScan(s)) => call.result = <<>>

\* a scan in which the fetch of the first symbol raised and the history of the
\* second was too short returned the LONG signal of the third
C6_Witness ==
    /\ call.op = "scan"
    /\ provider = [S1 |-> "raise", S2 |-> "short", S3 |-> "strong"]
    /\ ~call.raised
    /\ Len(call.result) = 1
    /\ call.result[1].symbol = "S3"
    /\ <<"warning", "S1">> \in Range(call.log)
    /\ <<"warning", "S2">> \in Range(call.log)

-----------------------------------------------------------------------------
(* Properties of filter_stocks_by_liquidity *)

\* mean(volume) x mean(close) of a history of constant price and volume
FlatLiquidity(symbol) ==
    Histories[provider[symbol]].vbase * Histories[provider[symbol]].base

\* the provider holds a history of constant price and volume for every symbol
AllFlat ==
    \A s \in Symbols :
        provider[s] # "raise" =>
            Histories[provider[s]].trend = 0 /\ Histories[provider[s]].spike = <<>>

C8_FailureExcludedAndLogged ==
    call.op = "filter" =>
        /\ ~call.raised
        /\ \A i \in 1..Len(call.arg) :
               FailsInFilter(call.arg[i]) =>
                   /\ call.arg[i] \notin Range(call.result)
                   /\ \E k \in 1..Len(call.log) : call.log[k][2] = call.arg[i]

\* C9: the output of the liquidity filter is a subsequence of its input: only
\* input symbols, no more entries than the input, in the order of the input.
C9_OutputIsSubsequence ==
    call.op = "filter" =>
        /\ Len(call.result) <= Len(call.arg)
        /\ Range(call.result) \subseteq Range(call.arg)
        /\ \E f \in [1..Len(call.result) -> 1..Len(call.arg)] :
               /\ \A k \in 1..Len(call.result) : call.result[k] = call.arg[f[k]]
               /\ \A k, l \in 1..Len(call.result) : k < l => f[k] < f[l]

\* the filter retained two symbols given out of alphabetical order, as given
C9_Witness ==
    /\ call.op = "filter"
    /\ call.arg = <<"S2", "S1">>
    /\ call.result = <<"S2", "S1">>

-----------------------------------------------------------------------------
(* Determinism of generate_pdm_signals *)

\* a result of generate_pdm_signals without its timestamp
Untimed(result) ==
    IF result = None THEN None ELSE <<[result[1] EXCEPT !.timestamp = 0]>>

\* a step from one generate_pdm_signals call to another one on the same symbol
\* (the provider's data and the engine's configuration are the same in both)
Reevaluation ==
    /\ call.op = "generate"
    /\ call'.op = "generate"
    /\ call'.arg = call.arg
    /\ provider' = provider
    /\ engine' = engine
    /\ clock' = clock

-----------------------------------------------------------------------------
(* Idempotence of scan_universe_for_opportunities *)

\* a list of signals without their timestamps
UntimedList(signals) ==
    [i \in 1..Len(signals) |-> [signals[i] EXCEPT !.timestamp = 0]]

\* a step from one scan to another one, over the same data and configuration
Rescan ==
    /\ call.op = "scan"
    /\ call'.op = "scan"
    /\ provider' = provider
    /\ engine' = engine
    /\ clock' = clock

-----------------------------------------------------------------------------
(* The fields of a produced signal *)

\* 1 for a condition that holds and 0 for one that does not
Indicator(condition) == IF condition THEN 1 ELSE 0

\* C12: the confidence score of every produced signal is the mean of the four
\* components trend confirmed (1 or 0), positive velocity (1 or 0), early
\* impulse (1 or 0) and min(institutional factor / 2, 1), and so lies in [0, 1].
\* In units of 1/(8*Scale): four times the mean, each component times 2*Scale.
C12_ConfidenceIsMeanOfComponents ==
    ReturnedSignal =>
        LET sig == call.result[1]
            v   == LatestOf[provider[sig.symbol]]
            trend    == /\ v.latest_sma_20 * 200 > v.latest_sma_200 * 20
                        /\ sig.price * 20 > v.latest_sma_20
            capped   == IF sig.institutional_volume_factor > 2 * Scale
                        THEN 2 * Scale
                        ELSE sig.institutional_volume_factor
        IN  /\ sig.confidence_score
                   = 2 * Scale * (Indicator(trend)
                                  + Indicator(sig.price_velocity > 0)
                                  + Indicator(sig.price_curvature < 0))
                     + capped
            /\ sig.confidence_score >= 0
            /\ sig.confidence_score <= 8 * Scale

\* a signal whose institutional factor is above 2 has a confidence score of 1
C12_Witness ==
    /\ ReturnedSignal
    /\ call.result[1].institutional_volume_factor > 2 * Scale
    /\ call.result[1].confidence_score = 8 * Scale

\* C18: every produced signal, LONG or HOLD, carries the hard stop C - A * 2
\* and the trailing stop C - A * 3, C the latest close and A the latest ATR,
\* 2.0 and 3.0 being the multipliers an engine is constructed with.  In units
\* of 1/14, the ATR being the sum of the last 14 true ranges over 14.
C18_StopsFromCloseAndAtr ==
    ReturnedSignal =>
        LET sig == call.result[1]
            bars == Market[provider[sig.symbol]]
            C == bars[SeriesLen(bars)].Close
            A14 == LatestOf[provider[sig.symbol]].latest_atr
        IN  /\ engine.atr_hard_stop_multiplier = 2
            /\ engine.atr_trailing_stop_multiplier = 3
            /\ sig.price = C
            /\ sig.atr_stop_loss = 14 * C - 2 * A14
            /\ sig.trailing_stop = 14 * C - 3 * A14

\* a HOLD signal at close 131 with ATR 4 carries the stops 123 and 119
C18_Witness ==
    /\ ReturnedSignal
    /\ call.result[1].signal_type = "HOLD"
    /\ call.result[1].price = 131
    /\ LatestOf[provider[call.result[1].symbol]].latest_atr = 4 * 14
    /\ call.result[1].atr_stop_loss = 123 * 14
    /\ call.result[1].trailing_stop = 119 * 14

\* the provider outcomes for which generate_pdm_signals has no signal to give:
\* the fetch raises, the data is empty or has too few bars, or the computation
\* of the indicators raises
NoSignalCase(symbol) ==
    \/ provider[symbol] = "raise"
    \/ BarsHeld(symbol) < 200
    \/ ~corr_accepts_rolling

\* C19: generate_pdm_signals never raises to its caller: it returns None when
\* the fetch raises, the data is empty or too short or the computation fails,
\* and exactly one PDMSignal, of the symbol asked for, otherwise.
C19_NoneOrOneSignal ==
    call.op = "generate" =>
        /\ ~call.raised
        /\ NoSignalCase(call.arg[1]) => call.result = None
        /\ ~NoSignalCase(call.arg[1]) =>
               /\ Len(call.result) = 1
               /\ call.result[1].symbol = call.arg[1]
               /\ call.result[1].signal_type \in {"LONG", "HOLD"}

\* the computation failed over a history fit for a LONG signal, and the call
\* returned None after logging the error
C19_Witness ==
    /\ call.op = "generate"
    /\ provider[call.arg[1]] = "strong"
    /\ ~corr_accepts_rolling
    /\ ~call.raised
    /\ call.result = None
    /\ call.log = <<LogRecord("error", call.arg[1])>>

-----------------------------------------------------------------------------
(* Properties of the indicator methods *)

IndicatorCall(name) == call.op = name /\ ~call.raised

\* C13: calculate_price_velocity returns a series of the length of its input
\* whose entry at t is price[t] - price[t-1], and which is undefined at the
\* first index.
C13_VelocityIsFirstDifference ==
    IndicatorCall("calculate_price_velocity") =>
        LET price_series == call.arg[1]
        IN  /\ SeriesLen(call.result) = Len(price_series)
            /\ call.result[1] = NaN
            /\ \A t \in 2..Len(price_series) :
                   call.result[t] = price_series[t] - price_series[t - 1]

C13_Witness ==
    /\ IndicatorCall("calculate_price_velocity")
    /\ call.arg[1] = <<100, 101, 103, 102, 105>>
    /\ call.result = <<NaN, 1, 2, -1, 3>>

\* C14: calculate_price_curvature returns a series of the length of its input
\* whose entry at t is price[t] - 2*price[t-1] + price[t-2], defined from the
\* third index on and undefined at the first two.
C14_CurvatureIsSecondDifference ==
    IndicatorCall("calculate_price_curvature") =>
        LET price_series == call.arg[1]
        IN  /\ SeriesLen(call.result) = Len(price_series)
            /\ \A t \in 1..Min2(2, Len(price_series)) : call.result[t] = NaN
            /\ \A t \in 3..Len(price_series) :
                   /\ call.result[t] # NaN
                   /\ call.result[t] =
                          price_series[t] - 2 * price_series[t - 1] + price_series[t - 2]

C14_Witness ==
    /\ IndicatorCall("calculate_price_curvature")
    /\ call.arg[1] = <<100, 101, 103, 102, 105>>
    /\ call.result = <<NaN, NaN, 1, -3, 4>>

\* the change of a float series at t is infinite, or is finite
InfiniteChange(s, t) == (s[t] = Inf) # (s[t - 1] = Inf)

FiniteChange(s, t) == s[t] # Inf /\ s[t - 1] # Inf

\* C15: calculate_volume_sensitivity returns, without an error, a series of the
\* length of its input that holds no +inf or -inf entry: where the quotient of
\* the price change by the volume change is infinite the entry is 0, and a
\* volume change of zero under a finite price change gives a finite entry.
C15_SensitivityHoldsNoInfinity ==
    call.op = "calculate_volume_sensitivity" =>
        LET price_series  == call.arg[1]
            volume_series == call.arg[2]
        IN  /\ ~call.raised
            /\ SeriesLen(call.result) = Len(price_series)
            /\ \A t \in 1..Len(price_series) : call.result[t][1] \notin {Inf, -Inf}
            /\ \A t \in 2..Len(price_series) :
                  /\ InfiniteChange(price_series, t) /\ FiniteChange(volume_series, t)
                        => call.result[t] = <<0, 0>>
                  /\ FiniteChange(price_series, t) /\ volume_series[t] = volume_series[t - 1]
                        /\ volume_series[t] # Inf
                        => call.result[t] = <<price_series[t] - price_series[t - 1], 0>>

C15_Witness ==
    /\ IndicatorCall("calculate_volume_sensitivity")
    /\ call.arg = <<<<1, 2, Inf>>, <<1, 1, 1>>>>
    /\ call.result = <<<<NaN, NaN>>, <<1, 0>>, <<0, 0>>>>

WellFormedBars(high_series, low_series) ==
    \A t \in DOMAIN high_series : high_series[t] >= low_series[t]

\* C16: calculate_average_true_range returns a series of the length of the
\* close series, and when every bar has high >= low every defined entry of it
\* is >= 0.
C16_AtrNonNegative ==
    IndicatorCall("calculate_average_true_range") =>
        /\ SeriesLen(call.result) = Len(call.arg[3])
        /\ WellFormedBars(call.arg[1], call.arg[2]) =>
              \A t \in DOMAIN call.result : call.result[t] = NaN \/ call.result[t] >= 0

\* bars with high >= low whose close lies outside the next bar, averaged over 2 bars
C16_Witness ==
    /\ IndicatorCall("calculate_average_true_range")
    /\ call.arg = <<<<3, 1, 3>>, <<1, 1, 3>>, <<3, 1, 3>>, 2>>
    /\ call.result = <<NaN, 4, 4>>

\* C17: detect_institutional_volume_participation returns, never raising an
\* error, a series of the length of its input whose every entry is defined
\* and >= 0.
C17_FactorDefinedNonNegative ==
    call.op = "detect_institutional_volume_participation" =>
        /\ ~call.raised
        /\ SeriesLen(call.result) = Len(call.arg[1])
        /\ \A t \in DOMAIN call.result : call.result[t] # NaN /\ call.result[t] >= 0

-----------------------------------------------------------------------------
(* The symbols a scan evaluates *)

\* generate_pdm_signals ran for the symbol: its signal is in the list, or the
\* warning or the error it logged for the symbol is in the log
Evaluated(symbol) ==
    \/ symbol \in SymbolsOf(call.result)
    \/ \E i \in 1..Len(call.log) :
          call.log[i] \in {LogRecord("warning", symbol), LogRecord("error", symbol)}

\* C20: a scan evaluates every liquid symbol within the evaluation cap its
\* caller configured; on an engine whose caller set no cap below the size of
\* the universe, every liquid symbol is evaluated.
C20_EveryLiquidSymbolEvaluated ==
    call.op = "scan" /\ ~call.raised =>
        \A symbol \in Range(filter_stocks_by_liquidity(engine.indian_market_symbols).result) :
            Evaluated(symbol)

-----------------------------------------------------------------------------
(* Properties of backtest_pdm_strategy *)

BacktestReturned == call.op = "backtest" /\ ~call.raised /\ call.result # BacktestFailed

BenchmarkFirst == provider[Benchmark].Close[1]

BenchmarkLast == provider[Benchmark].Close[Len(provider[Benchmark].Close)]

\* C21: a backtest reports benchmark_return = (lastClose / firstClose - 1) * 100
\* of the fetched series, strategy_return = 42.8, and outperformance =
\* strategy_return - benchmark_return of the values it reports (in tenths of a
\* percent).
C21_ReportsExactReturns ==
    BacktestReturned =>
        /\ call.result.benchmark_return * BenchmarkFirst
              = 1000 * (BenchmarkLast - BenchmarkFirst)
        /\ call.result.strategy_return = 428
        /\ call.result.outperformance
              = call.result.strategy_return - call.result.benchmark_return

\* x, a number of tenths, is a one-digit rounding of the quotient n / d, d > 0
RoundsToTenth(x, n, d) == (2 * x - 1) * d <= 2 * n /\ 2 * n <= (2 * x + 1) * d

\* C21 as amended: the reported benchmark_return is (lastClose / firstClose - 1)
\* * 100 rounded to one decimal, strategy_return is 42.8 whatever the input,
\* and outperformance is 42.8 minus the unrounded benchmark return, rounded to
\* one decimal: within 0.1 of the difference of the two reported values.
C21_ReportsRoundedReturns ==
    BacktestReturned =>
        /\ RoundsToTenth(call.result.benchmark_return,
                         1000 * (BenchmarkLast - BenchmarkFirst), BenchmarkFirst)
        /\ call.result.strategy_return = 428
        /\ RoundsToTenth(call.result.outperformance,
                         428 * BenchmarkFirst - 1000 * (BenchmarkLast - BenchmarkFirst),
                         BenchmarkFirst)
        /\ Abs(call.result.outperformance
                 - (call.result.strategy_return - call.result.benchmark_return)) <= 1

\* closes 16 .. 17: 6.25 % printed as 6.2, and 36.55 % printed as 36.5
C21_Witness ==
    /\ BacktestReturned
    /\ BenchmarkFirst = 16 /\ BenchmarkLast = 17
    /\ call.result.benchmark_return = 62
    /\ call.result.outperformance = 365

\* C29: backtest_pdm_strategy never raises; when the benchmark fetch raises or
\* returns an empty series it returns {'error': 'Backtest failed'} and none of
\* the return fields, and otherwise the report.
C29_BacktestNeverRaises ==
    call.op = "backtest" =>
        /\ ~call.raised
        /\ (provider[Benchmark].raised \/ provider[Benchmark].Close = <<>>)
              => call.result = BacktestFailed
        /\ ~(provider[Benchmark].raised \/ provider[Benchmark].Close = <<>>)
              => DOMAIN call.result = {"strategy_return", "benchmark_return",
                      "outperformance", "period", "max_positions", "methodology"}

C29_Witness ==
    /\ call.op = "backtest"
    /\ provider[Benchmark].Close = <<>>
    /\ ~provider[Benchmark].raised
    /\ call.result = [error |-> "Backtest failed"]
    /\ call.log # <<>>

-----------------------------------------------------------------------------
(* Properties of the engine's configuration *)

\* C22: in every constructed engine the windows and multipliers
\* (lookback_period, the two ATR stop multipliers, the ATR period, the
\* correlation window, the volume window) and maximum_positions are positive.
C22_ConfigurationPositive ==
    /\ engine.lookback_period > 0
    /\ engine.atr_hard_stop_multiplier > 0
    /\ engine.atr_trailing_stop_multiplier > 0
    /\ engine.maximum_positions > 0
    /\ AtrPeriod > 0
    /\ CorrelationWindow > 0
    /\ VolumeMaWindow > 0

-----------------------------------------------------------------------------
(* Properties of calculate_moving_averages *)

RECURSIVE WindowTotal(_, _, _)
\* s[t-w+1] + ... + s[t], the last 20 bars first where there are more
WindowTotal(s, t, w) ==
    IF w = 0 THEN 0
    ELSE IF w > 20 THEN WindowTotal(s, t, 20) + WindowTotal(s, t - 20, w - 20)
    ELSE s[t] + WindowTotal(s, t - 1, w - 1)

\* sma is the rolling mean of price over w bars, held as the mean times w
IsRollingMean(sma, price_series, w) ==
    /\ SeriesLen(sma) = Len(price_series)
    /\ \A t \in 1..Len(price_series) :
          IF t < w THEN sma[t] = NaN
          ELSE sma[t] # NaN /\ sma[t] = WindowTotal(price_series, t, w)

\* C23: calculate_moving_averages returns sma_20 and sma_200, sma_w at a bar
\* being the arithmetic mean of the w prices ending there once w prices are
\* available and undefined before; a series shorter than 200 has sma_200
\* undefined everywhere.
C23_RollingMeans ==
    IndicatorCall("calculate_moving_averages") =>
        /\ DOMAIN call.result = {"sma_20", "sma_200"}
        /\ IsRollingMean(call.result.sma_20, call.arg[1], 20)
        /\ IsRollingMean(call.result.sma_200, call.arg[1], 200)
        /\ Len(call.arg[1]) < 200 =>
              \A t \in 1..Len(call.arg[1]) : call.result.sma_200[t] = NaN

\* the 50 prices 1..50: sma_20 at the 20th bar is (1 + ... + 20) / 20
C23_Witness ==
    /\ IndicatorCall("calculate_moving_averages")
    /\ Len(call.arg[1]) = 50
    /\ \A t \in 1..50 : call.arg[1][t] = t
    /\ call.result.sma_20[19] = NaN
    /\ call.result.sma_20[20] = 210
    /\ call.result.sma_200[50] = NaN

-----------------------------------------------------------------------------
(* The order of the statements of a scan *)

\* the place of the signal of a symbol in a list of signals
PlaceIn(signals, symbol) == CHOOSE i \in 1..Len(signals) : signals[i].symbol = symbol

\* ranked is collected in the order of the ranking rule: confidence descending,
\* equal confidences in the order of collection
RankedFrom(ranked, collected) ==
    /\ Len(ranked) = Len(collected)
    /\ SymbolsOf(ranked) = SymbolsOf(collected)
    /\ \A i \in 1..Len(ranked) : ranked[i] = collected[PlaceIn(collected, ranked[i].symbol)]
    /\ \A i, j \in 1..Len(ranked) :
          i < j =>
              /\ ranked[i].confidence_score >= ranked[j].confidence_score
              /\ ranked[i].confidence_score = ranked[j].confidence_score
                    => PlaceIn(collected, ranked[i].symbol)
                          < PlaceIn(collected, ranked[j].symbol)

\* C24: the sort runs only when every symbol of the evaluated slice has been
\* through generate_pdm_signals, LONG, HOLD or failed, and its signal collected
\* if LONG; the sorted list is the collected one in the order of the ranking
\* rule alone, and the returned list is its first maximum_positions signals.
C24_RankedAfterCollection ==
    [][/\ call'.op = "scan:sorted" /\ call.op # "scan:sorted" =>
              /\ call.op = "scan:loop"
              /\ call.arg[2] = Len(call.arg[1]) + 1
              /\ SymbolsOf(call.result)
                    = {symbol \in Range(call.arg[1]) :
                          KeepSignal(generate_pdm_signals(symbol).result)}
              /\ RankedFrom(call'.result, call.result)
       /\ call'.op = "scan" /\ call.op # "scan" =>
              /\ call.op = "scan:sorted"
              /\ call'.result
                    = SubSeq(call.result, 1,
                             Min2(Len(call.result), engine.maximum_positions))]_vars

\* three signals collected in the order S1, S2, S3, time passing meanwhile, and
\* ranked S2, S3, S1
C24_Witness ==
    /\ call.op = "scan:sorted"
    /\ call.arg = <<<<"S1", "S2", "S3">>, 4>>
    /\ Len(call.result) = 3
    /\ <<call.result[1].symbol, call.result[2].symbol, call.result[3].symbol>>
           = <<"S2", "S3", "S1">>
    /\ call.result[3].timestamp < call.result[1].timestamp

\* C25: a scan that has been called completes, whatever the provider does for
\* any one symbol: a download that is never answered is cut off by a timeout.
C25_ScanCompletes == (call.op = "scan:called") ~> (call.op = "scan")

-----------------------------------------------------------------------------
(* What the operations leave alone *)

\* the step is a call of an operation, another one than the call before it
OtherCall == call'.op # call.op \/ call'.arg # call.arg

\* C26: no operation of the engine (filter, generate, scan, backtest) changes
\* the engine's configuration or universe, and the signal a scan or a call of
\* generate_pdm_signals produces for a symbol is the one generate_pdm_signals
\* gives for that symbol alone, whatever was evaluated before it.
C26_NoSharedState ==
    [][/\ OtherCall => engine' = engine
       /\ OtherCall /\ call'.op = "scan" =>
              \A i \in 1..Len(call'.result) :
                  <<call'.result[i]>> = generate_pdm_signals(call'.result[i].symbol).result
       /\ OtherCall /\ call'.op = "generate" =>
              call'.result = generate_pdm_signals(call'.arg[1]).result]_vars

\* a scan, made after a caller changed maximum_positions, that evaluated three
\* symbols one after the other and returned signals of two confidences
C26_Witness ==
    /\ call.op = "scan"
    /\ engine.maximum_positions = 2
    /\ Len(call.result) = 2
    /\ call.result[1].confidence_score > call.result[2].confidence_score

-----------------------------------------------------------------------------
(* The confidence of a LONG signal *)

Classified == call.op = "classify" /\ ~call.raised

\* C27: every signal classified LONG has a confidence score strictly greater
\* than 0.9.  (0.9 is the pair <<3, 1>>.)
C27_LongAbove09 ==
    Classified /\ call.result.signal_type = "LONG" =>
        /\ call.result.confidence_score[1] = 3
        /\ call.result.confidence_score[2] > 1

\* C27 as amended: every signal classified LONG has a confidence score of at
\* least 0.9, and the classification is LONG exactly when the three conditions
\* hold and the factor is above 1.2, so that confidence_score > 0.7 never
\* changes the outcome.
C27_LongAtLeast09 ==
    Classified =>
        /\ call.result.signal_type = "LONG" =>
              /\ call.result.confidence_score[1] = 3
              /\ call.result.confidence_score[2] >= 1
        /\ call.result.signal_type = "LONG"
              <=> call.arg[1] /\ call.arg[2] /\ call.arg[3] /\ call.arg[4] > 0

\* a LONG signal for the factor 1.2000000000000002, one unit above the double
\* 1.2, whose confidence score is the double 0.9
C27_Witness ==
    /\ Classified
    /\ call.arg = <<TRUE, TRUE, TRUE, 1>>
    /\ call.result.signal_type = "LONG"
    /\ call.result.confidence_score = <<3, 1>>

-----------------------------------------------------------------------------
(* The order of the stops *)

\* C28: in every produced signal whose latest ATR is defined and >= 0, under
\* the multipliers an engine is constructed with, the trailing stop is at or
\* below the hard stop and the hard stop at or below the price.  (Stops are in
\* units of 1/14 of a price unit.)
C28_StopsOrdered ==
    ReturnedSignal =>
        LET sig == call.result[1]
            atr == LatestOf[provider[sig.symbol]].latest_atr
        IN  atr # NaN /\ atr >= 0 =>
                /\ sig.trailing_stop <= sig.atr_stop_loss
                /\ sig.atr_stop_loss <= 14 * sig.price

\* a signal with a positive ATR: the three levels are apart
C28_Witness ==
    /\ ReturnedSignal
    /\ LatestOf[provider[call.result[1].symbol]].latest_atr > 0
    /\ call.result[1].trailing_stop < call.result[1].atr_stop_loss
    /\ call.result[1].atr_stop_loss < 14 * call.result[1].price

-----------------------------------------------------------------------------
(* The /predict cache *)

\* C30: a /predict request is answered with a cached response only while the
\* entry is less than 300 seconds old: every successful response carries a
\* timestamp less than 300 seconds before the request, however old the entry
\* found in the cache was.
C30_StaleNeverServed ==
    call.op = "predict" /\ call.result.status = 200 =>
        call.arg[2] - call.result.timestamp < 300

====
